---- MODULE Spec2Model ----
(***************************************************************************)
(* Textile -> BBCode converter (src/textile2bbcode/converter.py).          *)
(*                                                                         *)
(* A string is a sequence of characters; a character is a one-character    *)
(* TLA+ string.  The regular expressions of the converter are modelled by  *)
(* operators that compute the match the Python `re` engine finds           *)
(* (leftmost, greedy / non-greedy as written in the pattern).              *)
(***************************************************************************)
EXTENDS Integers, Sequences, FiniteSets, TLC

VARIABLES
    source,           \* the argument of convert (never reassigned; history)
    text,             \* local `text` of convert
    pending,          \* lines of text.splitlines() not yet visited by the loop
    converted_lines,  \* local `converted_lines`
    list_stack,       \* local `list_stack`
    raw_line,         \* loop variable `raw_line` (last line visited)
    pc,               \* position in convert: "start", "scan", "done", "raised"
    result,           \* the returned string (meaningful when pc = "done")
    lastOp,           \* history: branch of the loop body taken by the last step
    prev_stack,       \* history: list_stack before the last step
    prev_lines        \* history: converted_lines before the last step

vars == <<source, text, pending, converted_lines, list_stack, raw_line, pc,
          result, lastOp, prev_stack, prev_lines>>

-----------------------------------------------------------------------------
(* Bounds of the model *)

\* lines per text over NestLines and over CoreLines
MaxLines == 3
\* lines per text over all Lines
MaxShort == 2
\* nesting depth of the marker runs in the inputs
MaxDepth == 2

-----------------------------------------------------------------------------
(* Characters and generic string helpers *)

NL == "\n"
QUOTE == "\""

\* the whitespace characters of the model's alphabet (\s, str.strip())
Whitespace == {" ", NL}

\* Python None (returned by _close_list); distinct from every string
None == <<"None">>

UPPER == <<"A","B","C","D","E","F","G","H","I","J","K","L","M",
           "N","O","P","Q","R","S","T","U","V","W","X","Y","Z">>
LOWER == <<"a","b","c","d","e","f","g","h","i","j","k","l","m",
           "n","o","p","q","r","s","t","u","v","w","x","y","z">>

\* str.lower() on one character
LowerChar(c) ==
    IF \E i \in 1..26 : UPPER[i] = c
    THEN LOWER[CHOOSE i \in 1..26 : UPPER[i] = c]
    ELSE c

\* str.lower()
Lower(s) == [i \in 1..Len(s) |-> LowerChar(s[i])]

Drop(s, n) == SubSeq(s, n + 1, Len(s))
Take(s, n) == SubSeq(s, 1, n)

\* number of leading / trailing characters of s that belong to set cs
LeadRun(s, cs) ==
    IF \E i \in 1..Len(s) : s[i] \notin cs
    THEN (CHOOSE i \in 1..Len(s) :
             s[i] \notin cs /\ \A j \in 1..(i-1) : s[j] \in cs) - 1
    ELSE Len(s)

TrailRun(s, cs) ==
    IF \E i \in 1..Len(s) : s[i] \notin cs
    THEN Len(s) - (CHOOSE i \in 1..Len(s) :
             s[i] \notin cs /\ \A j \in (i+1)..Len(s) : s[j] \in cs)
    ELSE Len(s)

\* str.strip(chars): remove leading and trailing characters of cs
StripSet(s, cs) ==
    IF LeadRun(s, cs) = Len(s) THEN <<>>
    ELSE SubSeq(s, LeadRun(s, cs) + 1, Len(s) - TrailRun(s, cs))

\* str.strip()
Strip(s) == StripSet(s, Whitespace)

\* the literal lit occurs in s at position i (1-based)
MatchAt(s, i, lit) ==
    /\ i >= 1
    /\ i + Len(lit) - 1 <= Len(s)
    /\ \A k \in 1..Len(lit) : s[i + k - 1] = lit[k]

\* same, under re.IGNORECASE (lit is written in lower case)
MatchAtCI(s, i, lit) ==
    /\ i >= 1
    /\ i + Len(lit) - 1 <= Len(s)
    /\ \A k \in 1..Len(lit) : LowerChar(s[i + k - 1]) = lit[k]

RECURSIVE Join(_, _)
\* sep.join(parts)
Join(parts, sep) ==
    IF parts = <<>> THEN <<>>
    ELSE IF Len(parts) = 1 THEN parts[1]
    ELSE parts[1] \o sep \o Join(Tail(parts), sep)

RECURSIVE SplitFrom(_, _)
\* lines of s after the partial line cur; a final empty piece is not a line
SplitFrom(s, cur) ==
    IF s = <<>> THEN (IF cur = <<>> THEN <<>> ELSE <<cur>>)
    ELSE IF Head(s) = NL THEN <<cur>> \o SplitFrom(Tail(s), <<>>)
    ELSE SplitFrom(Tail(s), Append(cur, Head(s)))

\* str.splitlines()
splitlines(s) == SplitFrom(s, <<>>)

-----------------------------------------------------------------------------
(* Module constants of converter.py *)

\* LIST_MARKERS = {"#": "[list=1]", "*": "[list]"}
LIST_MARKERS ==
    [m \in {"#", "*"} |->
        IF m = "#" THEN <<"[","l","i","s","t","=","1","]">>
                   ELSE <<"[","l","i","s","t","]">>]

\* HEADING_SIZES = {"1": "18pt", ..., "6": "8pt"}
HEADING_SIZES ==
    [d \in {"1","2","3","4","5","6"} |->
        CASE d = "1" -> <<"1","8","p","t">>
          [] d = "2" -> <<"1","6","p","t">>
          [] d = "3" -> <<"1","4","p","t">>
          [] d = "4" -> <<"1","2","p","t">>
          [] d = "5" -> <<"1","0","p","t">>
          [] d = "6" -> <<"8","p","t">>]

CLOSE_LIST == <<"[","/","l","i","s","t","]">>
ITEM == <<"[","*","]">>
CODE_OPEN == <<"[","c","o","d","e","]">>
CODE_CLOSE == <<"[","/","c","o","d","e","]">>
BLOCK_OPEN == <<"[","C","O","D","E","]">>
BLOCK_CLOSE == <<"[","/","C","O","D","E","]">>

\* literals of CODE_BLOCK_PATTERN (matched under re.IGNORECASE)
PRE_CODE == <<"<","p","r","e",">","<","c","o","d","e">>
CLASS_ATTR == <<" ","c","l","a","s","s","=",QUOTE>>
END_CODE == <<"<","/","c","o","d","e",">","<","/","p","r","e",">">>

-----------------------------------------------------------------------------
(* Search helpers used by the pattern operators *)

\* least index >= from of a character of cs in s, 0 when there is none
FindChar(s, from, cs) ==
    IF \E i \in from..Len(s) : s[i] \in cs
    THEN CHOOSE i \in from..Len(s) :
             s[i] \in cs /\ \A j \in from..(i-1) : s[j] \notin cs
    ELSE 0

\* least index >= from where lit occurs in s ignoring case, 0 when none
FindLitCI(s, from, lit) ==
    IF \E i \in from..Len(s) : MatchAtCI(s, i, lit)
    THEN CHOOSE i \in from..Len(s) :
             MatchAtCI(s, i, lit) /\ \A j \in from..(i-1) : ~MatchAtCI(s, j, lit)
    ELSE 0

-----------------------------------------------------------------------------
(* _escape_bbcode *)

RECURSIVE _escape_bbcode(_)
\* text.replace("[", "&#91;").replace("]", "&#93;")
_escape_bbcode(s) ==
    IF s = <<>> THEN <<>>
    ELSE (CASE Head(s) = "[" -> <<"&","#","9","1",";">>
            [] Head(s) = "]" -> <<"&","#","9","3",";">>
            [] OTHER -> <<Head(s)>>) \o _escape_bbcode(Tail(s))

-----------------------------------------------------------------------------
(* CODE_BLOCK_PATTERN and _replace_code_blocks *)

\* index just after the opening tag  <pre><code(?: class="([^"]+)")?>  that
\* starts at i, and the captured language (None without class); 0 if no tag
OpenTagAt(s, i) ==
    IF ~MatchAtCI(s, i, PRE_CODE) THEN [after |-> 0, language |-> None]
    ELSE LET j == i + Len(PRE_CODE) IN
         IF MatchAt(s, j, <<">">>) THEN [after |-> j + 1, language |-> None]
         ELSE IF ~MatchAtCI(s, j, CLASS_ATTR) THEN [after |-> 0, language |-> None]
         ELSE LET k == j + Len(CLASS_ATTR)
                  q == FindChar(s, k, {QUOTE})
              IN IF q > k /\ MatchAt(s, q + 1, <<">">>)
                 THEN [after |-> q + 2, language |-> SubSeq(s, k, q - 1)]
                 ELSE [after |-> 0, language |-> None]

\* the match of CODE_BLOCK_PATTERN that starts at i:
\*   \s* (greedy) skips the whitespace after the tag, (.*?) (non-greedy,
\*   DOTALL) stops at the first place followed by \s*</code></pre>
CodeBlockMatchAt(s, i) ==
    LET tag == OpenTagAt(s, i) IN
    IF tag.after = 0 THEN [ok |-> FALSE]
    ELSE LET start == tag.after + LeadRun(Drop(s, tag.after - 1), Whitespace)
             c == FindLitCI(s, start, END_CODE)
         IN IF c = 0 THEN [ok |-> FALSE]
            ELSE LET between == SubSeq(s, start, c - 1) IN
                 [ok |-> TRUE,
                  language |-> tag.language,
                  body |-> Take(between, Len(between) - TrailRun(between, Whitespace)),
                  end |-> c + Len(END_CODE) - 1]

\* _to_bbcode(match)
_to_bbcode(language, body) ==
    LET language_suffix == IF language # None THEN <<"=">> \o Lower(language)
                           ELSE <<>>
        cleaned_body == StripSet(body, {NL})
        escaped_header == _escape_bbcode(<<"[","c","o","d","e">> \o language_suffix \o <<"]">>)
        escaped_footer == _escape_bbcode(CODE_CLOSE)
    IN Join(<<BLOCK_OPEN, escaped_header, cleaned_body, escaped_footer, BLOCK_CLOSE>>,
            <<NL>>)

RECURSIVE _replace_code_blocks(_)
\* CODE_BLOCK_PATTERN.sub(_to_bbcode, text): leftmost matches, left to right
_replace_code_blocks(s) ==
    IF \E i \in 1..Len(s) : CodeBlockMatchAt(s, i).ok
    THEN LET i == CHOOSE i \in 1..Len(s) :
                      /\ CodeBlockMatchAt(s, i).ok
                      /\ \A j \in 1..(i-1) : ~CodeBlockMatchAt(s, j).ok
             m == CodeBlockMatchAt(s, i)
         IN Take(s, i - 1) \o _to_bbcode(m.language, m.body)
                \o _replace_code_blocks(Drop(s, m.end))
    ELSE s

-----------------------------------------------------------------------------
(* INLINE_CODE_PATTERN and _convert_inline_code *)

\* variant of _convert_inline_code: greedy @(.*)@ on a line without newline
_convert_inline_code_greedy(s) ==
    LET i == FindChar(s, 1, {"@"})
        j == Len(s) - TrailRun(s, {c \in {s[n] : n \in 1..Len(s)} : c # "@"})
    IN IF i = 0 \/ j <= i THEN s
       ELSE Take(s, i - 1) \o CODE_OPEN \o SubSeq(s, i + 1, j - 1) \o CODE_CLOSE
                \o Drop(s, j)

RECURSIVE _convert_inline_code(_)
\* INLINE_CODE_PATTERN.sub: @(.*?)@ with `.` not matching a newline
_convert_inline_code(s) ==
    LET i == FindChar(s, 1, {"@"}) IN
    IF i = 0 THEN s
    ELSE LET j == FindChar(s, i + 1, {"@", NL}) IN
         IF j = 0 THEN s
         ELSE IF s[j] = NL THEN Take(s, j) \o _convert_inline_code(Drop(s, j))
         ELSE Take(s, i - 1) \o CODE_OPEN \o SubSeq(s, i + 1, j - 1) \o CODE_CLOSE
                  \o _convert_inline_code(Drop(s, j))

-----------------------------------------------------------------------------
(* HEADING_PATTERN and _convert_line *)

\* HEADING_PATTERN.match(line): ^h([1-6])\.\s+(.*)$
HeadingMatch(line) ==
    IF /\ Len(line) >= 4
       /\ line[1] = "h"
       /\ line[2] \in {"1","2","3","4","5","6"}
       /\ line[3] = "."
       /\ line[4] \in Whitespace
       /\ NL \notin {line[i] : i \in (4 + LeadRun(Drop(line, 3), Whitespace))..Len(line)}
    THEN [ok |-> TRUE, level |-> line[2],
          title |-> Drop(line, 3 + LeadRun(Drop(line, 3), Whitespace))]
    ELSE [ok |-> FALSE]

\* variant of _convert_line: the heading title is inline-code-converted
_convert_line_inline_title(line) ==
    LET heading_match == HeadingMatch(line) IN
    IF heading_match.ok
    THEN <<"[","S","I","Z","E","=">> \o HEADING_SIZES[heading_match.level]
             \o <<"]","[","B","]">>
             \o _convert_inline_code(Strip(heading_match.title))
             \o <<"[","/","B","]","[","/","S","I","Z","E","]">>
    ELSE _convert_inline_code(line)

\* _convert_line(line)
_convert_line(line) ==
    LET heading_match == HeadingMatch(line) IN
    IF heading_match.ok
    THEN LET size == IF heading_match.level \in DOMAIN HEADING_SIZES
                     THEN HEADING_SIZES[heading_match.level]
                     ELSE <<"1","2","p","t">>
             title == Strip(heading_match.title)
         IN <<"[","S","I","Z","E","=">> \o size \o <<"]","[","B","]">> \o title
                \o <<"[","/","B","]","[","/","S","I","Z","E","]">>
    ELSE _convert_inline_code(line)

-----------------------------------------------------------------------------
(* the list-item pattern of convert *)

\* variant of ListMatch: ^(#+|\*+)\s+(.*)$, a run of a single kind
ListMatch_single_kind(line) ==
    LET n == LeadRun(line, {"#", "*"}) IN
    IF /\ n >= 1
       /\ \A i \in 1..n : line[i] = line[1]
       /\ n < Len(line)
       /\ line[n + 1] \in Whitespace
    THEN [ok |-> TRUE, markers |-> Take(line, n),
          content |-> Drop(line, n + LeadRun(Drop(line, n), Whitespace))]
    ELSE [ok |-> FALSE]

\* re.match(r"^([#*]+)\s+(.*)$", raw_line)
ListMatch(line) ==
    LET n == LeadRun(line, {"#", "*"}) IN
    IF /\ n >= 1
       /\ n < Len(line)
       /\ line[n + 1] \in Whitespace
       /\ NL \notin {line[i] : i \in (n + 1 + LeadRun(Drop(line, n), Whitespace))..Len(line)}
    THEN [ok |-> TRUE, markers |-> Take(line, n),
          content |-> Drop(line, n + LeadRun(Drop(line, n), Whitespace))]
    ELSE [ok |-> FALSE]

-----------------------------------------------------------------------------
(* list helpers *)

\* _start_list(marker)
_start_list(marker) ==
    IF marker \in DOMAIN LIST_MARKERS THEN LIST_MARKERS[marker]
    ELSE <<"[","l","i","s","t","]">>

\* _close_list(active)
_close_list(active) == IF active # "" THEN CLOSE_LIST ELSE None

\* stack.pop() followed by the conditional lines.append(closing)
PopAndClose(lines, stack) ==
    LET closing == _close_list(stack[Len(stack)]) IN
    [lines |-> IF closing # None THEN Append(lines, closing) ELSE lines,
     stack |-> Take(stack, Len(stack) - 1)]

\* variant of _close_list_stack: `if stack:` in place of `while stack:`
_close_list_stack_once(lines, stack) ==
    IF stack # <<>>
    THEN LET s == PopAndClose(lines, stack) IN [lines |-> s.lines, stack |-> s.stack]
    ELSE [lines |-> lines, stack |-> stack]

RECURSIVE _close_list_stack(_, _)
\* while stack: pop and close
_close_list_stack(lines, stack) ==
    IF stack # <<>>
    THEN LET s == PopAndClose(lines, stack) IN _close_list_stack(s.lines, s.stack)
    ELSE [lines |-> lines, stack |-> stack]

RECURSIVE PopWhileLonger(_, _, _)
\* while len(stack) > n: pop and close
PopWhileLonger(lines, stack, n) ==
    IF Len(stack) > n
    THEN LET s == PopAndClose(lines, stack) IN PopWhileLonger(s.lines, s.stack, n)
    ELSE [lines |-> lines, stack |-> stack]

RECURSIVE SyncFrom_no_compare(_, _, _, _)
\* variant of SyncFrom: the test `stack[idx] != marker` is missing
SyncFrom_no_compare(lines, stack, new_levels, idx) ==
    IF idx > Len(new_levels) THEN [lines |-> lines, stack |-> stack]
    ELSE LET marker == new_levels[idx] IN
         IF idx > Len(stack)
         THEN LET s == PopWhileLonger(lines, stack, idx - 1) IN
              SyncFrom_no_compare(Append(s.lines, _start_list(marker)),
                                  Append(s.stack, marker), new_levels, idx + 1)
         ELSE SyncFrom_no_compare(lines, stack, new_levels, idx + 1)

RECURSIVE SyncFrom(_, _, _, _)
\* the for loop of _sync_list_levels from (1-based) position idx on
SyncFrom(lines, stack, new_levels, idx) ==
    IF idx > Len(new_levels) THEN [lines |-> lines, stack |-> stack]
    ELSE LET marker == new_levels[idx] IN
         IF idx > Len(stack) \/ stack[idx] # marker
         THEN LET s == PopWhileLonger(lines, stack, idx - 1) IN
              SyncFrom(Append(s.lines, _start_list(marker)),
                       Append(s.stack, marker), new_levels, idx + 1)
         ELSE SyncFrom(lines, stack, new_levels, idx + 1)

\* variant of _sync_list_levels: the first while loop is missing
_sync_list_levels_no_trim(lines, stack, markers) ==
    SyncFrom(lines, stack, markers, 1)

\* _sync_list_levels(lines, stack, markers)
_sync_list_levels(lines, stack, markers) ==
    LET new_levels == markers
        s == PopWhileLonger(lines, stack, Len(new_levels))
    IN SyncFrom(s.lines, s.stack, new_levels, 1)

-----------------------------------------------------------------------------
(* The loop body of convert, one operator per branch.  A loop state is a   *)
(* record [lines, stack, raised]; raised models an IndexError of           *)
(* converted_lines[-1].                                                    *)

\* variant of ListItemStep: the [*] entry is not appended
ListItemStep_no_item(lines, stack, line) ==
    LET s == _sync_list_levels(lines, stack, ListMatch(line).markers) IN
    [lines |-> s.lines, stack |-> s.stack, raised |-> FALSE]

\* branch 1: the line is a list item
ListItemStep(lines, stack, line) ==
    LET list_match == ListMatch(line)
        s == _sync_list_levels(lines, stack, list_match.markers)
    IN [lines |-> Append(s.lines,
                         ITEM \o _convert_inline_code(Strip(list_match.content))),
        stack |-> s.stack,
        raised |-> FALSE]

\* variant of ContinuationStep: the line goes through _convert_line
ContinuationStep_convert_line(lines, stack, line) ==
    IF lines = <<>>
    THEN [lines |-> lines, stack |-> stack, raised |-> TRUE]
    ELSE [lines |-> [lines EXCEPT ![Len(lines)] =
                        Join(<<lines[Len(lines)], _convert_line(Strip(line))>>,
                             <<NL>>)],
          stack |-> stack,
          raised |-> FALSE]

\* branch 2: non-blank line while a list is open
ContinuationStep(lines, stack, line) ==
    IF lines = <<>>
    THEN [lines |-> lines, stack |-> stack, raised |-> TRUE]
    ELSE [lines |-> [lines EXCEPT ![Len(lines)] =
                        Join(<<lines[Len(lines)], _convert_inline_code(Strip(line))>>,
                             <<NL>>)],
          stack |-> stack,
          raised |-> FALSE]

\* variant of BlankStep: the blank line is emitted after the closing tags
BlankStep_keep_line(lines, stack, line) ==
    LET s == _close_list_stack(lines, stack) IN
    [lines |-> Append(s.lines, line), stack |-> s.stack, raised |-> FALSE]

\* branch 3: blank line while a list is open
BlankStep(lines, stack, line) ==
    LET s == _close_list_stack(lines, stack) IN
    [lines |-> s.lines, stack |-> s.stack, raised |-> FALSE]

\* branch 4: any other line
PlainStep(lines, stack, line) ==
    [lines |-> Append(lines, _convert_line(line)), stack |-> stack, raised |-> FALSE]

\* the conditions of the four branches, in the order the code tests them
IsListItem(line, stack) == ListMatch(line).ok
IsContinuation(line, stack) ==
    ~ListMatch(line).ok /\ stack # <<>> /\ Strip(line) # <<>>
IsBlankClose(line, stack) ==
    ~ListMatch(line).ok /\ ~(stack # <<>> /\ Strip(line) # <<>>)
        /\ stack # <<>> /\ Strip(line) = <<>>
IsPlain(line, stack) ==
    ~IsListItem(line, stack) /\ ~IsContinuation(line, stack)
        /\ ~IsBlankClose(line, stack)

\* one iteration of the for loop
LoopBody(lines, stack, line) ==
    CASE IsListItem(line, stack) -> ListItemStep(lines, stack, line)
      [] IsContinuation(line, stack) -> ContinuationStep(lines, stack, line)
      [] IsBlankClose(line, stack) -> BlankStep(lines, stack, line)
      [] OTHER -> PlainStep(lines, stack, line)

RECURSIVE RunLoop(_, _)
\* the for loop over the remaining lines rest, from loop state st
RunLoop(st, rest) ==
    IF st.raised \/ rest = <<>> THEN st
    ELSE RunLoop(LoopBody(st.lines, st.stack, Head(rest)), Tail(rest))

\* the return statement: close the open lists, drop None entries, join
FinalJoin(lines, stack) ==
    LET s == _close_list_stack(lines, stack) IN
    Join(SelectSeq(s.lines, LAMBDA line : line # None), <<NL>>)

\* the value of an invocation that raised
Raised == <<"IndexError">>

\* convert(text) as a function
convert(t) ==
    LET st == RunLoop([lines |-> <<>>, stack |-> <<>>, raised |-> FALSE],
                      splitlines(_replace_code_blocks(t)))
    IN IF st.raised THEN Raised ELSE FinalJoin(st.lines, st.stack)

-----------------------------------------------------------------------------
(* Inputs *)

RECURSIVE SeqsUpTo(_, _)
\* the sequences over S of length 0..n
SeqsUpTo(S, n) ==
    IF n = 0 THEN {<<>>}
    ELSE LET shorter == SeqsUpTo(S, n - 1) IN
         shorter \cup {Append(q, x) : q \in shorter, x \in S}

\* marker runs: of one kind at every depth 1..MaxDepth, and the mixed pairs
MarkerRuns ==
    {[i \in 1..d |-> m] : d \in 1..MaxDepth, m \in {"#", "*"}}
        \cup { <<"#", "*">>, <<"*", "#">> }

\* lines of the nesting texts: one item line per marker run, a plain line
\* and an empty line
NestLines ==
    {m \o <<" ", "a">> : m \in MarkerRuns} \cup { <<>>, <<"a">> }

\* lines of the mixed texts
CoreLines ==
    { <<"#", " ", "a">>,                               \* ordered item
      <<"*", " ", "a">>,                               \* bullet item
      <<"#", "#", " ", "a">>,                          \* nested item
      <<"#", " ", " ", "@", "a", "@", " ">>,           \* item, padded @..@ content
      <<>>,                                            \* empty
      <<" ">>,                                         \* whitespace only
      <<"a">>,                                         \* plain
      <<" ", "a", "@", "b", "@", " ">>,                \* plain, inline code, padded
      <<" ", "*", " ", "a">>,                          \* indented marker
      <<"h", "1", ".", " ", "a">>,                     \* heading
      <<"h", "6", ".", " ", " ", "@", "a", "@", " ">> }  \* heading, padded @..@ title

\* further lines, used in the texts of up to MaxShort lines
EdgeLines ==
    {<<"h", d, ".", " ", "a">> : d \in {"2","3","4","5","6"}}
        \cup
    { <<"a", "@">>,                          \* unterminated inline code
      <<"@", "@", "@", "a", "@">>,           \* empty span, then a second span
      <<"#", "a">>,                          \* marker without whitespace
      <<"h", "7", ".", " ", "a">>,           \* no such heading level
      <<"h", "1", ".", "a">>,                \* heading without whitespace
      <<"h", "3", ".", " ">> }               \* heading with an empty title

Lines == CoreLines \cup EdgeLines

\* texts without code blocks: lines joined by newlines
PlainTexts ==
    {Join(ls, <<NL>>) : ls \in SeqsUpTo(NestLines, MaxLines)}
        \cup {Join(ls, <<NL>>) : ls \in SeqsUpTo(CoreLines, MaxLines)}
        \cup {Join(ls, <<NL>>) : ls \in SeqsUpTo(Lines, MaxShort)}

\* opening tags: plain, upper case, and with a mixed-case language class
OpenTags ==
    { PRE_CODE \o <<">">>,
      <<"<","P","R","E",">","<","C","O","D","E",">">>,
      PRE_CODE \o CLASS_ATTR \o <<"P","y">> \o <<QUOTE, ">">> }

\* code-block bodies as written between the delimiters
Bodies ==
    { <<"a">>,
      <<NL, "a", NL>>,
      <<NL, "a", NL, "b", NL>>,
      <<NL, " ", "a", NL>>,                  \* indented first line
      <<NL, "#", " ", "a", NL>>,             \* line shaped like a list item
      <<NL, "h", "1", ".", " ", "a", NL>>,   \* line shaped like a heading
      <<NL, "@", "a", "@", NL>>,             \* line with an inline-code span
      <<NL, "a", NL, NL, "b", NL>> }         \* interior blank line

Prefixes == { <<>>, <<"a", NL>>, <<"#", " ", "a", NL>> }
Suffixes == { <<>>, <<NL, "a">> }

\* texts with one <pre><code>...</code></pre> span
CodeTexts ==
    {pre \o open \o body \o END_CODE \o post :
        pre \in Prefixes, open \in OpenTags, body \in Bodies, post \in Suffixes}

\* texts with a malformed span, which the pattern does not match
MalformedTexts ==
    { PRE_CODE \o <<">", "a">>,                                    \* not closed
      PRE_CODE \o CLASS_ATTR \o <<QUOTE, ">", "a">> \o END_CODE }  \* empty class

Texts == PlainTexts \cup CodeTexts \cup MalformedTexts

-----------------------------------------------------------------------------
(* The state machine of one invocation of convert *)

Init ==
    /\ source \in Texts
    /\ text = source
    /\ pending = <<>>
    /\ converted_lines = <<>>
    /\ list_stack = <<>>
    /\ raw_line = <<>>
    /\ pc = "start"
    /\ result = <<>>
    /\ lastOp = "none"
    /\ prev_stack = <<>>
    /\ prev_lines = <<>>

\* text = _replace_code_blocks(text); the loop iterates text.splitlines()
Start ==
    /\ pc = "start"
    /\ text' = _replace_code_blocks(text)
    /\ pending' = splitlines(text')
    /\ pc' = "scan"
    /\ lastOp' = "start"
    /\ prev_stack' = list_stack
    /\ prev_lines' = converted_lines
    /\ UNCHANGED <<source, converted_lines, list_stack, raw_line, result>>

\* the common part of one loop iteration that takes the branch named op
Iterate(op, st) ==
    /\ raw_line' = Head(pending)
    /\ pending' = Tail(pending)
    /\ converted_lines' = st.lines
    /\ list_stack' = st.stack
    /\ pc' = IF st.raised THEN "raised" ELSE "scan"
    /\ lastOp' = op
    /\ prev_stack' = list_stack
    /\ prev_lines' = converted_lines
    /\ UNCHANGED <<source, text, result>>

ListItem ==
    /\ pc = "scan"
    /\ pending # <<>>
    /\ IsListItem(Head(pending), list_stack)
    /\ Iterate("item", ListItemStep(converted_lines, list_stack, Head(pending)))

Continuation ==
    /\ pc = "scan"
    /\ pending # <<>>
    /\ IsContinuation(Head(pending), list_stack)
    /\ Iterate("cont", ContinuationStep(converted_lines, list_stack, Head(pending)))

BlankClose ==
    /\ pc = "scan"
    /\ pending # <<>>
    /\ IsBlankClose(Head(pending), list_stack)
    /\ Iterate("blank", BlankStep(converted_lines, list_stack, Head(pending)))

PlainLine ==
    /\ pc = "scan"
    /\ pending # <<>>
    /\ IsPlain(Head(pending), list_stack)
    /\ Iterate("plain", PlainStep(converted_lines, list_stack, Head(pending)))

\* end of the loop: _close_list_stack, then the joined result is returned
Finish ==
    /\ pc = "scan"
    /\ pending = <<>>
    /\ LET s == _close_list_stack(converted_lines, list_stack) IN
         /\ converted_lines' = s.lines
         /\ list_stack' = s.stack
    /\ result' = FinalJoin(converted_lines, list_stack)
    /\ pc' = "done"
    /\ lastOp' = "finish"
    /\ prev_stack' = list_stack
    /\ prev_lines' = converted_lines
    /\ UNCHANGED <<source, text, pending, raw_line>>

Next ==
    \/ Start
    \/ ListItem
    \/ Continuation
    \/ BlankClose
    \/ PlainLine
    \/ Finish

Spec == Init /\ [][Next]_vars

TypeOK ==
    /\ pc \in {"start", "scan", "done", "raised"}
    /\ lastOp \in {"none", "start", "item", "cont", "blank", "plain", "finish"}
    /\ \A i \in 1..Len(list_stack) : list_stack[i] \in {"#", "*"}

-----------------------------------------------------------------------------
(* Vocabulary of the properties *)

TagOrdered == <<"[","l","i","s","t","=","1","]">>
TagBullet == <<"[","l","i","s","t","]">>
TagClose == <<"[","/","l","i","s","t","]">>
TagItem == <<"[","*","]">>

LoopOps == {"item", "cont", "blank", "plain"}

StartsWith(s, lit) == MatchAt(s, 1, lit)

\* lit occurs somewhere in s
IsInfix(lit, s) == \E i \in 1..(Len(s) + 1) : lit = <<>> \/ MatchAt(s, i, lit)

\* the leading run of marker characters of a line
MarkersOf(line) == Take(line, LeadRun(line, {"#", "*"}))

\* a non-empty marker run followed by whitespace
ItemShaped(line) ==
    /\ Len(MarkersOf(line)) >= 1
    /\ Len(MarkersOf(line)) < Len(line)
    /\ line[Len(MarkersOf(line)) + 1] \in Whitespace

\* hN. followed by whitespace, N in 1..6
HeadingShaped(line) ==
    /\ Len(line) >= 4
    /\ line[1] = "h"
    /\ line[2] \in {"1","2","3","4","5","6"}
    /\ line[3] = "."
    /\ line[4] \in Whitespace

IsBlankLine(line) == \A i \in 1..Len(line) : line[i] \in Whitespace

\* all entries of a marker sequence are of one kind
Homogeneous(ms) == \A i, j \in 1..Len(ms) : ms[i] = ms[j]

\* length of the longest common prefix of two sequences
CommonPrefix(a, b) ==
    CHOOSE k \in 0..Len(a) :
        /\ k <= Len(b)
        /\ \A i \in 1..k : a[i] = b[i]
        /\ (k < Len(a) /\ k < Len(b)) => a[k + 1] # b[k + 1]

\* list tags opened minus list tags closed in a sequence of output entries
Depth(lines) ==
    Cardinality({i \in 1..Len(lines) : lines[i] \in {TagOrdered, TagBullet}})
        - Cardinality({i \in 1..Len(lines) : lines[i] = TagClose})

\* n copies of [/list]
Closes(n) == [i \in 1..n |-> TagClose]

\* the open tags of the levels k+1.. of marker sequence ms
Opens(ms, k) ==
    [i \in 1..(Len(ms) - k) |-> IF ms[k + i] = "#" THEN TagOrdered ELSE TagBullet]

-----------------------------------------------------------------------------
(* Properties *)

\* C1: in the ordered output every prefix holds at least as many list-open
\* tags as [/list] tags, every [*] entry is emitted while a list is open, and
\* when convert returns the stack is empty and opens and closes are equal.
C1_ListTagsBalanced ==
    /\ \A n \in 1..Len(converted_lines) :
          /\ Depth(Take(converted_lines, n)) >= 0
          /\ StartsWith(converted_lines[n], TagItem)
                => Depth(Take(converted_lines, n - 1)) >= 1
    /\ pc = "done" => (list_stack = <<>> /\ Depth(converted_lines) = 0)

\* two levels were still open at the end of input and the return closed them
C1_Witness ==
    /\ pc = "done"
    /\ Len(prev_stack) = 2
    /\ Depth(prev_lines) = 2
    /\ Depth(converted_lines) = 0

\* C2: right after a list-item line the stack equals the characters of its
\* marker string, from any prior stack, and a continuation line keeps it.
C2_StackMirrorsMarkers ==
    /\ lastOp = "item" => list_stack = MarkersOf(raw_line)
    /\ lastOp = "cont" => list_stack = prev_stack

\* a one-level bullet item processed while two ordered levels were open
C2_Witness ==
    /\ lastOp = "item"
    /\ prev_stack = <<"#", "#">>
    /\ list_stack = <<"*">>

\* C3: a list-item line emits exactly len(S)-k closes, then len(M)-k opens in
\* order of depth, then the [*] entry, k being the common prefix of the old
\* stack S and the markers M.
C3_ExactSync ==
    lastOp = "item" =>
        LET S == prev_stack
            M == MarkersOf(raw_line)
            k == CommonPrefix(S, M)
            n == Len(converted_lines)
        IN /\ n = Len(prev_lines) + (Len(S) - k) + (Len(M) - k) + 1
           /\ Take(converted_lines, n - 1) =
                 prev_lines \o Closes(Len(S) - k) \o Opens(M, k)
           /\ StartsWith(converted_lines[n], TagItem)

\* '##' -> '#': one close, no reopen of the shared outer list
C3_Witness ==
    /\ lastOp = "item"
    /\ prev_stack = <<"#", "#">>
    /\ MarkersOf(raw_line) = <<"#">>
    /\ Len(converted_lines) = Len(prev_lines) + 2
    /\ converted_lines[Len(prev_lines) + 1] = TagClose

\* C4: a blank line met while lists are open emits one [/list] per level,
\* empties the stack and adds nothing for itself; a plain line is emitted
\* only outside any list, as one new entry after the closing tags.
C4_BlankClosesAll ==
    /\ (lastOp \in LoopOps /\ IsBlankLine(raw_line) /\ prev_stack # <<>>) =>
          /\ list_stack = <<>>
          /\ converted_lines = prev_lines \o Closes(Len(prev_stack))
    /\ lastOp = "plain" =>
          /\ list_stack = <<>>
          /\ Depth(prev_lines) = 0
          /\ Len(converted_lines) = Len(prev_lines) + 1
          /\ Take(converted_lines, Len(prev_lines)) = prev_lines

\* a whitespace-only line closed two open levels
C4_Witness ==
    /\ lastOp = "blank"
    /\ raw_line = <<" ">>
    /\ Len(prev_stack) = 2
    /\ Len(converted_lines) = Len(prev_lines) + 2

\* C5: a non-blank line that is not a list item, met while lists are open, is
\* appended (trimmed, inline-code-converted) to the last entry after a
\* newline; stack, list tags and number of entries stay as they were.
C5_Continuation ==
    (/\ lastOp \in LoopOps
     /\ ~IsBlankLine(raw_line)
     /\ ~ItemShaped(raw_line)
     /\ prev_stack # <<>>) =>
        /\ list_stack = prev_stack
        /\ prev_lines # <<>>
        /\ converted_lines =
              [prev_lines EXCEPT ![Len(prev_lines)] =
                  @ \o <<NL>> \o _convert_inline_code(Strip(raw_line))]

\* a heading-shaped line was taken as a continuation
C5_Witness ==
    /\ lastOp = "cont"
    /\ raw_line = <<"h", "1", ".", " ", "a">>
    /\ Len(converted_lines) = Len(prev_lines)

\* progress measure of an invocation: the phase, then the lines still to visit
Phase(p) == CASE p = "start" -> 2 [] p = "scan" -> 1 [] OTHER -> 0

\* C6: no step of convert raises, every step brings the invocation closer to
\* its return (the phase falls, or the number of lines left to visit does),
\* the empty string yields the empty string, and the continuation branch
\* always finds a last entry, which is a [*] entry.
C6_Total ==
    [][/\ pc' # "raised"
       /\ \/ Phase(pc') < Phase(pc)
          \/ (Phase(pc') = Phase(pc) /\ Len(pending') < Len(pending))
       /\ (pc' = "done" /\ source' = <<>>) => result' = <<>>
       /\ lastOp' = "cont" =>
             (prev_lines' # <<>>
                 /\ StartsWith(prev_lines'[Len(prev_lines')], TagItem))]_vars

\* a second continuation line in a row read an entry that already holds one
C6_Witness ==
    /\ lastOp = "cont"
    /\ prev_lines # <<>>
    /\ NL \in {prev_lines[Len(prev_lines)][i] :
                  i \in 1..Len(prev_lines[Len(prev_lines)])}

\* C7: for a matched <pre><code ...>BODY</code></pre> span the output holds,
\* on consecutive lines, [CODE], the escaped opening tag, the body as in the
\* source but for the newlines next to the delimiters, the escaped closing
\* tag and [/CODE].
C7_BodyVerbatim ==
    pc = "done" =>
        \A pre \in Prefixes, open \in OpenTags, body \in Bodies, post \in Suffixes :
            source = pre \o open \o body \o END_CODE \o post =>
                IsInfix(
                    BLOCK_OPEN \o <<NL>>
                        \o (IF QUOTE \in {open[i] : i \in 1..Len(open)}
                            THEN <<"&","#","9","1",";","c","o","d","e","=","p","y",
                                   "&","#","9","3",";">>
                            ELSE <<"&","#","9","1",";","c","o","d","e",
                                   "&","#","9","3",";">>)
                        \o <<NL>> \o StripSet(body, {NL}) \o <<NL>>
                        \o <<"&","#","9","1",";","/","c","o","d","e","&","#","9","3",";">>
                        \o <<NL>> \o BLOCK_CLOSE,
                    result)

\* the size the heading of level d is rendered with
ExpectedSize(d) ==
    CASE d = "1" -> <<"1","8">>
      [] d = "2" -> <<"1","6">>
      [] d = "3" -> <<"1","4">>
      [] d = "4" -> <<"1","2">>
      [] d = "5" -> <<"1","0">>
      [] d = "6" -> <<"8">>

\* C8: a line hN. TITLE (N in 1..6) met while no list is open becomes
\* [SIZE=Spt][B]TITLE[/B][/SIZE], S = 18,16,14,12,10,8, TITLE trimmed and not
\* inline-code-converted.
C8_HeadingRendering ==
    (/\ lastOp \in LoopOps
     /\ prev_stack = <<>>
     /\ HeadingShaped(raw_line)) =>
        converted_lines =
            Append(prev_lines,
                   <<"[","S","I","Z","E","=">> \o ExpectedSize(raw_line[2])
                       \o <<"p","t","]","[","B","]">>
                       \o Strip(Drop(raw_line, 3))
                       \o <<"[","/","B","]","[","/","S","I","Z","E","]">>)

\* a level-6 heading whose padded title holds an @...@ span was rendered
C8_Witness ==
    /\ lastOp = "plain"
    /\ prev_stack = <<>>
    /\ raw_line = <<"h", "6", ".", " ", " ", "@", "a", "@", " ">>
    /\ IsInfix(<<"[","B","]","@","a","@","[","/","B","]">>,
               converted_lines[Len(converted_lines)])

\* a line holds an @...@ span (two delimiters; a line holds no newline)
HasSpan(s) == Cardinality({i \in 1..Len(s) : s[i] = "@"}) >= 2

RECURSIVE Reshaped(_, _)
\* some line of lines is rewritten by a second pass although the first pass
\* kept it as text: a continuation line (inList: a list is open) whose
\* trimmed text is heading- or item-shaped, or a heading whose title holds
\* an @...@ span
Reshaped(lines, inList) ==
    IF lines = <<>> THEN FALSE
    ELSE LET l == Head(lines) IN
         IF ItemShaped(l) THEN Reshaped(Tail(lines), TRUE)
         ELSE IF inList /\ ~IsBlankLine(l)
              THEN \/ HeadingShaped(Strip(l))
                   \/ ItemShaped(Strip(l))
                   \/ Reshaped(Tail(lines), TRUE)
         ELSE IF inList THEN Reshaped(Tail(lines), FALSE)
         ELSE \/ (HeadingShaped(l) /\ HasSpan(l))
              \/ Reshaped(Tail(lines), FALSE)

\* the text holds a <pre><code ...> ... </code></pre> span
HasCodeSpan(t) ==
    \E i \in 1..Len(t) :
        /\ MatchAtCI(t, i, PRE_CODE)
        /\ \E j \in (i + Len(PRE_CODE))..Len(t) : MatchAtCI(t, j, END_CODE)

\* the inputs for which a second pass leaves the output of the first alone
StableInput ==
    /\ ~HasCodeSpan(source)
    /\ ~Reshaped(splitlines(source), FALSE)
    /\ (result # <<>> => result[Len(result)] # NL)

\* C9 as stated: for every input, converting the output again returns it
\* unchanged.
C9_Idempotent == pc = "done" => convert(result) = result

\* C9 amended: converting the output again never raises, and returns it
\* unchanged when the input holds no code-block span, no heading title with
\* an @...@ span, no continuation line whose trimmed text is heading- or
\* item-shaped, and the output does not end with a newline.
C9_StableOnBBCode ==
    pc = "done" =>
        /\ convert(result) # Raised
        /\ StableInput => convert(result) = result

\* a nested list with a continuation and inline code went through both passes
C9_Witness ==
    /\ pc = "done"
    /\ StableInput
    /\ result # source
    /\ Len(prev_stack) = 2
    /\ IsInfix(CODE_OPEN, result)
    /\ \E i \in 1..Len(converted_lines) :
          /\ StartsWith(converted_lines[i], TagItem)
          /\ NL \in {converted_lines[i][j] : j \in 1..Len(converted_lines[i])}

\* C10 as stated: only a marker run of a single kind makes a list item, so
\* the stack never holds both '#' and '*'.
C10_SingleKind ==
    /\ lastOp = "item" => Homogeneous(MarkersOf(raw_line))
    /\ Homogeneous(list_stack)

\* C10 amended: a line is a list item exactly when it starts with a
\* non-empty run of '#' and '*' characters, of one kind or mixed, followed by
\* whitespace; every entry of the stack is '#' or '*'.
C10_MarkerRun ==
    /\ lastOp \in LoopOps => (lastOp = "item" <=> ItemShaped(raw_line))
    /\ \A i \in 1..Len(list_stack) : list_stack[i] \in {"#", "*"}

\* the mixed run '#*' was taken as a list item and the stack holds both kinds
C10_Witness ==
    /\ lastOp = "item"
    /\ MarkersOf(raw_line) = <<"#", "*">>
    /\ list_stack = <<"#", "*">>

====
